---- MODULE Spec2Model ----
(***************************************************************************)
(* The heart-disease prediction service of api/main.py: the module-level  *)
(* artifact loading, the request validation of HeartDiseaseInput, and the  *)
(* /predict handler with its Prometheus metrics.  Requests are handled by  *)
(* concurrent worker threads (a sync FastAPI handler), so the handler is   *)
(* split at its shared-state operations and its calls into the artifacts.  *)
(*                                                                         *)
(* Probabilities are fixed-point, in hundredths (60 is 0.60).              *)
(* Exceptions raised by the artifacts derive from Exception.               *)
(***************************************************************************)
EXTENDS Integers, Sequences, FiniteSets, TLC

\* ------------------------------------------------------------- bounds
MaxRequests == 2
MaxLabel == 2
MaxRootCalls == 1
MaxRows == 30

Requests == 1..MaxRequests

\* ------------------------------------------------------- request schema
\* class HeartDiseaseInput(BaseModel): 13 fields, all int except oldpeak
Fields ==
    <<"age", "sex", "cp", "trestbps", "chol", "fbs", "restecg", "thalach",
      "exang", "oldpeak", "slope", "ca", "thal">>

FieldNames == {Fields[i] : i \in 1..Len(Fields)}

HeartDiseaseInput == [f \in FieldNames |-> IF f = "oldpeak" THEN "float" ELSE "int"]

\* A JSON body is given by what it carries for each field: an integer
\* ("int"), a fractional number ("float"), a non-numeric string ("str"), or
\* nothing at all ("missing").

\* A check that lets an absent field pass.
FieldConformsOptional(declared, kind) ==
    kind = "missing" \/ (IF declared = "float" THEN kind \in {"int", "float"} ELSE kind = "int")

\* pydantic's check of one field: a required field must be present; an int
\* field takes an integer, a float field an integer or a fractional number.
FieldConforms(declared, kind) ==
    IF declared = "float" THEN kind \in {"int", "float"} ELSE kind = "int"

\* FastAPI validates the body against the handler's parameter type before the
\* handler is called.
Validates(body) ==
    \A f \in FieldNames : FieldConforms(HeartDiseaseInput[f], body[f])

\* The bodies the model sends: type-conformant ones, and ones with a single
\* defect (one field missing or carrying a non-numeric string).
WellFormed(k) == [f \in FieldNames |-> IF f = "oldpeak" THEN k ELSE "int"]

Bodies ==
    {WellFormed(k) : k \in {"int", "float"}}
    \cup {[WellFormed("float") EXCEPT ![f] = k] :
              f \in FieldNames, k \in {"str", "missing"}}

\* What is wrong with a body sent: a field absent, a field that is no number,
\* or nothing.  A fractional number for an int field is not sent (pydantic 1
\* truncates it, pydantic 2 rejects it).
BodyDefect(body) ==
    IF \E f \in FieldNames : body[f] = "missing" THEN "missing"
    ELSE IF \E f \in FieldNames : body[f] = "str" THEN "str"
    ELSE "none"

\* ------------------------------------------------------------ artifacts
\* What a module-level name holds: nothing yet ("unbound"), None, or the
\* object joblib.load returned.  A loaded object is told apart by what
\* Python's truth test of it does (bool(x): __bool__, else __len__).
Objects == {"obj_truthy", "obj_falsy", "obj_raises"}

\* What joblib.load finds at a path.
FileStates == {"missing", "corrupt"} \cup Objects

\* joblib.load(path): the object, or the exception it raises.
JoblibLoad(file) ==
    CASE file = "missing" -> [exc |-> "FileNotFoundError", value |-> "unbound"]
      [] file = "corrupt" -> [exc |-> "UnpicklingError", value |-> "unbound"]
      [] OTHER -> [exc |-> "none", value |-> file]

\* except FileNotFoundError as e:
LoadHandlerCatches(exc) == exc = "FileNotFoundError"

\* `not x`
PyNot(x) ==
    CASE x = "None" -> "True"
      [] x = "obj_falsy" -> "True"
      [] x = "obj_truthy" -> "False"
      [] OTHER -> "raise"

\* `not model or not preprocessor` (short-circuit, left to right)
NotLoaded(m, p) ==
    IF PyNot(m) = "False" THEN PyNot(p) ELSE PyNot(m)

\* ------------------------------------------------------------ inference
\* Rows predict_proba can return for one input: class probabilities in
\* hundredths, summing to 100, for a 2-class and for a 3-class model.
ProbaRows ==
    {<<40, 60>>, <<60, 40>>, <<50, 50>>, <<100, 0>>, <<20, 30, 50>>}

\* Class values predict can return: nothing in the handler restricts them,
\* so they range over the integers that index the widest row from either end
\* and the first one past it.
PredValues == (-(MaxLabel + 1))..MaxLabel

\* The local prediction_result before line 121 assigns it.
Unassigned == -(MaxLabel + 2)

\* prediction_proba[0][prediction_result]: Python indexing, 0-based from the
\* front and -1-based from the end, an IndexError outside -len..len-1.
IndexInRange(row, i) == -Len(row) <= i /\ i < Len(row)

\* A confidence read from the positive class's column whatever the
\* prediction.
ProbaAtPositive(row, i) == row[2]

ProbaAt(row, i) == IF i >= 0 THEN row[i + 1] ELSE row[Len(row) + i + 1]

\* A label text that takes every class but 0 for the disease.
PredictionTextNonZero(prediction_result) ==
    IF prediction_result # 0 THEN "Heart Disease" ELSE "No Heart Disease"

\* "Heart Disease" if prediction_result == 1 else "No Heart Disease"
PredictionText(prediction_result) ==
    IF prediction_result = 1 THEN "Heart Disease" ELSE "No Heart Disease"

\* The entries of a probability matrix (a sequence of rows).
Entries(proba) ==
    UNION {{proba[i][j] : j \in 1..Len(proba[i])} : i \in 1..Len(proba)}

\* The smallest entry instead of the largest.
MatrixMin(proba) == CHOOSE v \in Entries(proba) : \A w \in Entries(proba) : v <= w

\* model.predict_proba(input_scaled).max(): the largest entry of the matrix
MatrixMax(proba) == CHOOSE v \in Entries(proba) : \A w \in Entries(proba) : w <= v

\* inference.predict, from what the two model calls return on the scaled
\* input: (int(prediction[0]), float(proba.max()))
InferencePredict(prediction, proba) == <<prediction[1], MatrixMax(proba)>>

ErrorTypes == {"model_not_loaded", "preprocessing_error", "prediction_error"}

NotLoadedMessage == "Model or preprocessor not loaded. Please check the server logs."

\* ---------------------------------------------------------------- state
VARIABLES
    disk,                   \* what lies at the two artifact paths when the process starts
    boot,                   \* "init", "serving", "crashed" (import of the module failed)
    preprocessor, model,    \* the module-level names
    model_load_status,      \* Gauge heart_disease_model_loaded
    load_status_sets,       \* number of model_load_status.set calls
    active_requests,        \* Gauge heart_disease_active_requests
    prediction_counter,     \* Counter by prediction_label
    prediction_confidence,  \* Histogram: count and sum of the observations
    prediction_errors,      \* Counter by error_type
    req,                    \* per request: position in the handler and locals
    root_served,            \* number of GET / requests answered
    root_body,              \* the payload of the last GET / response
    csv,                    \* the dataset file given to load_and_preprocess_data
    split                   \* what load_and_preprocess_data did with it

vars ==
    <<disk, boot, preprocessor, model, model_load_status, load_status_sets,
      active_requests, prediction_counter, prediction_confidence,
      prediction_errors, req, root_served, root_body, csv, split>>

welcome == <<root_served, root_body>>

offline == <<csv, split>>

artifacts == <<disk, boot, preprocessor, model, model_load_status, load_status_sets>>

metrics == <<active_requests, prediction_counter, prediction_confidence, prediction_errors>>

NoBody == [none |-> TRUE]

NewRequest ==
    [pc |-> "idle",          \* idle, l95, l99, l105, l117, l125, l140, done
     input |-> "unsent",     \* the JSON body received, by its defect (BodyDefect)
     valid |-> FALSE,        \* the handler was called with the validated body
     status |-> 0,           \* HTTP status of the response, 0 while none
     body |-> NoBody,        \* the response payload
     ret |-> NoBody,         \* value of the return statement reached, if any
     exc |-> "none",         \* exception propagating out of the try block
     incs |-> 0, decs |-> 0, \* active_requests.inc() / .dec() calls made
     checks |-> 0,           \* readiness checks evaluated
     transforms |-> 0,       \* preprocessor.transform calls
     predicts |-> 0,         \* model.predict calls
     probas |-> 0,           \* model.predict_proba calls
     failed |-> "none",      \* the stage whose failure was handled
     processed_input |-> 0,  \* what transform returned (a token), 0 while unset
     predict_arg |-> 0,      \* the argument of model.predict
     proba_arg |-> 0,        \* the argument of model.predict_proba
     prediction |-> <<>>,    \* what model.predict returned
     prediction_proba |-> <<>>, \* what model.predict_proba returned
     prediction_result |-> Unassigned, \* local of the handler
     confidence |-> -1,      \* local of the handler, -1 while unset
     errs |-> <<>>,          \* error_type labels this request incremented
     counted |-> <<>>,       \* prediction_label values this request incremented
     observed |-> <<>>]      \* confidences this request observed

\* No dataset, and load_and_preprocess_data not called.
NoCsv == [rows |-> 0, target |-> FALSE, numeric |-> FALSE]

NotCalled == [outcome |-> "not called"]

ServiceInit ==
    /\ disk \in [preprocessor : FileStates, model : FileStates]
    /\ boot = "init"
    /\ preprocessor = "unbound"
    /\ model = "unbound"
    /\ model_load_status = 0
    /\ load_status_sets = 0
    /\ active_requests = 0
    /\ prediction_counter = [l \in PredValues |-> 0]
    /\ prediction_confidence = [count |-> 0, sum |-> 0]
    /\ prediction_errors = [e \in ErrorTypes |-> 0]
    /\ req = [r \in Requests |-> NewRequest]
    /\ root_served = 0
    /\ root_body = NoBody

\* The service process: load_and_preprocess_data is not part of it.
Init ==
    /\ ServiceInit
    /\ csv = NoCsv
    /\ split = NotCalled

\* -------------------------------------------------------------- startup
\* main.py 65-84: the try block loading both artifacts, and its handler.
\* The module body runs when the module is imported, once per process.
ImportRunsAgain(b) == b # "crashed"

ImportRuns(b) == b = "init"

LoadArtifacts ==
    /\ ImportRuns(boot)
    /\ LET p == JoblibLoad(disk.preprocessor)
           m == JoblibLoad(disk.model)
           \* the first exception raised in the try block, if any
           exc == IF p.exc # "none" THEN p.exc ELSE m.exc
       IN  IF exc = "none"
           THEN /\ preprocessor' = p.value
                /\ model' = m.value
                /\ model_load_status' = 1
                /\ load_status_sets' = load_status_sets + 1
                /\ boot' = "serving"
           ELSE IF LoadHandlerCatches(exc)
           THEN /\ preprocessor' = "None"
                /\ model' = "None"
                /\ model_load_status' = 0
                /\ load_status_sets' = load_status_sets + 1
                /\ boot' = "serving"
           ELSE \* the exception leaves the module: the import fails
                /\ preprocessor' = p.value
                /\ model' = "unbound"
                /\ UNCHANGED <<model_load_status, load_status_sets>>
                /\ boot' = "crashed"
    /\ UNCHANGED <<welcome, offline, disk, metrics, req>>

\* ------------------------------------------------------------- /predict
Set(r, fields) == [req EXCEPT ![r] = fields]

\* {"error": ...}
ErrorResponse(message) == [error |-> message]

\* main.py 128-132
SuccessResponse(prediction_result, confidence) ==
    [prediction |-> PredictionText(prediction_result),
     prediction_label |-> prediction_result,
     confidence |-> confidence]

\* An error counted twice.
IncErrorTwice(e) == [prediction_errors EXCEPT ![e] = @ + 2]

\* prediction_errors.labels(error_type=e).inc()
IncError(e) == [prediction_errors EXCEPT ![e] = @ + 1]

\* Branches recording under another branch's label.
NotLoadedErrorTypeSwapped == "prediction_error"
PreprocessingErrorTypeSwapped == "prediction_error"

\* The error type each except/if branch of the handler records.
NotLoadedErrorType == "model_not_loaded"
PreprocessingErrorType == "preprocessing_error"
PredictionErrorType == "prediction_error"

\* A branch that goes back to the transform after a failure.
AfterFailureRetry == "l105"

\* Where a branch that handled a failure goes on: its return statement, so
\* the finally block is next.
AfterFailure == "l140"

\* A handled failure: count it under its error type and reach the return of
\* the branch; the finally block is next.
Fail(r, rec, stage, errorType, message) ==
    /\ prediction_errors' = IncError(errorType)
    /\ req' = Set(r, [rec EXCEPT !.failed = stage,
                                 !.errs = Append(@, errorType),
                                 !.ret = ErrorResponse(message),
                                 !.pc = AfterFailure])

\* The framework parses and validates the body (data: HeartDiseaseInput) and
\* calls the handler only with a valid one; otherwise it answers 422 itself.
Receive(r) ==
    /\ boot = "serving"
    /\ req[r].pc = "idle"
    /\ \E body \in Bodies :
         IF Validates(body)
         THEN req' = Set(r, [req[r] EXCEPT !.input = BodyDefect(body), !.valid = TRUE,
                                           !.pc = "l95"])
         ELSE req' = Set(r, [req[r] EXCEPT !.input = BodyDefect(body),
                                           !.status = 422,
                                           !.body = [detail |-> "validation error"],
                                           !.pc = "done"])
    /\ UNCHANGED <<welcome, offline, artifacts, metrics>>

\* main.py 95: active_requests.inc()
Started(r) ==
    /\ req[r].pc = "l95"
    /\ active_requests' = active_requests + 1
    /\ req' = Set(r, [req[r] EXCEPT !.incs = @ + 1, !.pc = "l99"])
    /\ UNCHANGED <<welcome, offline, artifacts, prediction_counter, prediction_confidence, prediction_errors>>

\* main.py 97-102: the readiness check.  It is inside the outer try only, so
\* an exception of the truth test leaves the handler through the finally block.
ReadyCheck(r) ==
    /\ req[r].pc = "l99"
    /\ LET rec == [req[r] EXCEPT !.checks = @ + 1]
           t == NotLoaded(model, preprocessor)
       IN  CASE t = "True" ->
                  Fail(r, rec, "readiness", NotLoadedErrorType, NotLoadedMessage)
             [] t = "False" ->
                  /\ req' = Set(r, [rec EXCEPT !.pc = "l105"])
                  /\ UNCHANGED prediction_errors
             [] OTHER ->
                  /\ req' = Set(r, [rec EXCEPT !.exc = "Exception", !.pc = "l140"])
                  /\ UNCHANGED prediction_errors
    /\ UNCHANGED <<welcome, offline, artifacts, active_requests, prediction_counter, prediction_confidence>>

\* main.py 105-113: build the frame and call preprocessor.transform, which
\* returns the processed input or raises.
Transform(r) ==
    /\ req[r].pc = "l105"
    /\ LET rec == [req[r] EXCEPT !.transforms = @ + 1]
       IN  \/ /\ req' = Set(r, [rec EXCEPT !.processed_input = r, !.pc = "l117"])
              /\ UNCHANGED prediction_errors
           \/ Fail(r, rec, "preprocessing", PreprocessingErrorType,
                   "Error during data preprocessing")
    /\ UNCHANGED <<welcome, offline, artifacts, active_requests, prediction_counter, prediction_confidence>>

\* main.py 117-122 and the except of 135-138: both model calls on the
\* processed input, then the extraction of label and confidence.
Infer(r) ==
    /\ req[r].pc = "l117"
    /\ LET called == [req[r] EXCEPT !.predicts = @ + 1,
                                    !.predict_arg = req[r].processed_input]
       IN  \/ \* model.predict raises
              Fail(r, called, "prediction", PredictionErrorType, "Error during prediction")
           \/ \E p \in PredValues :
                LET rec == [called EXCEPT !.prediction = <<p>>, !.probas = @ + 1,
                                          !.proba_arg = req[r].processed_input]
                IN  \/ \* model.predict_proba raises
                       Fail(r, rec, "prediction", PredictionErrorType,
                            "Error during prediction")
                    \/ \E row \in ProbaRows :
                         LET got == [rec EXCEPT !.prediction_proba = <<row>>]
                             prediction_result == got.prediction[1]
                         IN  IF IndexInRange(got.prediction_proba[1], prediction_result)
                             THEN /\ req' = Set(r,
                                       [got EXCEPT
                                          !.prediction_result = prediction_result,
                                          !.confidence =
                                              ProbaAt(got.prediction_proba[1],
                                                      prediction_result),
                                          !.pc = "l125"])
                                  /\ UNCHANGED prediction_errors
                             ELSE \* line 121 has assigned the local, 122 raises IndexError
                                  Fail(r, [got EXCEPT !.prediction_result = prediction_result],
                                       "prediction", PredictionErrorType,
                                       "Error during prediction")
    /\ UNCHANGED <<welcome, offline, artifacts, active_requests, prediction_counter, prediction_confidence>>

\* main.py 125: prediction_counter.labels(prediction_label=...).inc()
Count(r) ==
    /\ req[r].pc = "l125"
    /\ prediction_counter' =
           [prediction_counter EXCEPT ![req[r].prediction_result] = @ + 1]
    /\ req' = Set(r, [req[r] EXCEPT !.counted = Append(@, req[r].prediction_result),
                                    !.pc = "l126"])
    /\ UNCHANGED <<welcome, offline, artifacts, active_requests, prediction_confidence, prediction_errors>>

\* main.py 126-134: prediction_confidence.observe(confidence), then the response
Observe(r) ==
    /\ req[r].pc = "l126"
    /\ prediction_confidence' =
           [count |-> prediction_confidence.count + 1,
            sum |-> prediction_confidence.sum + req[r].confidence]
    /\ req' = Set(r, [req[r] EXCEPT
                        !.observed = Append(@, req[r].confidence),
                        !.ret = SuccessResponse(req[r].prediction_result,
                                                req[r].confidence),
                        !.pc = "l140"])
    /\ UNCHANGED <<welcome, offline, artifacts, active_requests, prediction_counter, prediction_errors>>

\* A decrement in the branch and again in the finally clause.
FinallyDecsTwice(exc) == 2

\* The decrement written after the try block instead of in a finally clause.
FinallyDecsOnReturnOnly(exc) == IF exc = "none" THEN 1 ELSE 0

\* finally: the number of active_requests.dec() calls made on the way out,
\* with an exception propagating or not.
FinallyDecs(exc) == 1

\* main.py 139-140: finally: active_requests.dec(); then the handler returns
\* its value, or the exception goes on to the framework (HTTP 500).
Finished(r) ==
    /\ req[r].pc = "l140"
    /\ active_requests' = active_requests - FinallyDecs(req[r].exc)
    /\ req' = Set(r,
          IF req[r].exc = "none"
          THEN [req[r] EXCEPT !.decs = @ + FinallyDecs(req[r].exc), !.status = 200,
                              !.body = req[r].ret, !.pc = "done"]
          ELSE [req[r] EXCEPT !.decs = @ + FinallyDecs(req[r].exc), !.status = 500,
                              !.body = [detail |-> "Internal Server Error"],
                              !.pc = "done"])
    /\ UNCHANGED <<welcome, offline, artifacts, prediction_counter, prediction_confidence, prediction_errors>>

\* A root handler that is counted as an active request and never released.
RootInstrumented ==
    /\ boot = "serving"
    /\ root_served < MaxRootCalls
    /\ root_served' = root_served + 1
    /\ root_body' = [message |-> "Welcome"]
    /\ active_requests' = active_requests + 1
    /\ UNCHANGED <<offline, artifacts, prediction_counter, prediction_confidence,
                   prediction_errors, req>>

WelcomeMessage ==
    "Welcome to the Heart Disease Prediction API. Use the /predict endpoint to make predictions."

\* main.py 86-88: read_root
Root ==
    /\ boot = "serving"
    /\ root_served < MaxRootCalls
    /\ root_served' = root_served + 1
    /\ root_body' = [message |-> WelcomeMessage]
    /\ UNCHANGED <<offline, artifacts, metrics, req>>

Next ==
    \/ LoadArtifacts
    \/ Root
    \/ \E r \in Requests :
         \/ Receive(r)
         \/ Started(r)
         \/ ReadyCheck(r)
         \/ Transform(r)
         \/ Infer(r)
         \/ Count(r)
         \/ Observe(r)
         \/ Finished(r)

Spec == Init /\ [][Next]_vars

\* ------------------------------------------------ failing metric recording
\* The handler when a recording operation raises.  The two recordings of the
\* success path are inside the try of 116-138, so the except of 135-138
\* takes their exception for a prediction error; the recordings of the error
\* branches (101, 112, 137) are guarded by nothing but the finally.

\* An exception raised in an except clause or outside the inner try blocks
\* leaves the handler: the finally block is next, nothing is returned.
Escape(r, rec) == req' = Set(r, [rec EXCEPT !.exc = "Exception", !.pc = "l140"])

\* main.py 125 raising: prediction_counter.labels(...).inc()
CountFails(r) ==
    /\ req[r].pc = "l125"
    /\ Fail(r, req[r], "recording", PredictionErrorType, "Error during prediction")
    /\ UNCHANGED <<welcome, offline, artifacts, active_requests, prediction_counter, prediction_confidence>>

\* main.py 126 raising: prediction_confidence.observe(confidence)
ObserveFails(r) ==
    /\ req[r].pc = "l126"
    /\ Fail(r, req[r], "recording", PredictionErrorType, "Error during prediction")
    /\ UNCHANGED <<welcome, offline, artifacts, active_requests, prediction_counter, prediction_confidence>>

\* main.py 101 raising: prediction_errors.labels(error_type="model_not_loaded").inc()
NotLoadedIncFails(r) ==
    /\ req[r].pc = "l99"
    /\ NotLoaded(model, preprocessor) = "True"
    /\ req' = Set(r, [req[r] EXCEPT !.checks = @ + 1, !.exc = "Exception",
                                    !.pc = "l140"])
    /\ UNCHANGED <<welcome, offline, artifacts, metrics>>

\* main.py 108-112 with 112 raising: transform raises, then
\* prediction_errors.labels(error_type="preprocessing_error").inc() raises
TransformIncFails(r) ==
    /\ req[r].pc = "l105"
    /\ Escape(r, [req[r] EXCEPT !.transforms = @ + 1])
    /\ UNCHANGED <<welcome, offline, artifacts, metrics>>

\* main.py 117-122 and 135-137 with 137 raising: a model call or the
\* extraction raises, then
\* prediction_errors.labels(error_type="prediction_error").inc() raises
InferIncFails(r) ==
    /\ req[r].pc = "l117"
    /\ LET called == [req[r] EXCEPT !.predicts = @ + 1,
                                    !.predict_arg = req[r].processed_input]
       IN  \/ Escape(r, called)
           \/ \E p \in PredValues :
                LET rec == [called EXCEPT !.prediction = <<p>>, !.probas = @ + 1,
                                          !.proba_arg = req[r].processed_input]
                IN  \/ Escape(r, rec)
                    \/ \E row \in ProbaRows :
                         /\ ~IndexInRange(row, p)
                         /\ Escape(r, [rec EXCEPT !.prediction_proba = <<row>>,
                                                  !.prediction_result = p])
    /\ UNCHANGED <<welcome, offline, artifacts, metrics>>

\* main.py 125 and 135-137 with both increments raising
CountIncFails(r) ==
    /\ req[r].pc = "l125"
    /\ Escape(r, req[r])
    /\ UNCHANGED <<welcome, offline, artifacts, metrics>>

\* main.py 126 and 135-137 with the observe and the increment raising
ObserveIncFails(r) ==
    /\ req[r].pc = "l126"
    /\ Escape(r, req[r])
    /\ UNCHANGED <<welcome, offline, artifacts, metrics>>

NextMetricFaults ==
    \/ Next
    \/ \E r \in Requests :
         \/ CountFails(r)
         \/ ObserveFails(r)
         \/ NotLoadedIncFails(r)
         \/ TransformIncFails(r)
         \/ InferIncFails(r)
         \/ CountIncFails(r)
         \/ ObserveIncFails(r)

SpecMetricFaults == Init /\ [][NextMetricFaults]_vars

\* ------------------------------------------------ offline preprocessing
\* preprocess.py: load_and_preprocess_data(csv_path).  A dataset is given by
\* its number of rows, whether it has a "target" column, and whether its
\* feature columns are numeric.
Csvs == [rows : 0..MaxRows, target : BOOLEAN, numeric : BOOLEAN]

\* test_size=0.2
TestSizePercent == 20

\* A test share rounded down.
NTestFloor(n) == (n * TestSizePercent) \div 100

\* train_test_split with a float test_size: n_test = ceil(test_size * n)
NTest(n) == (n * TestSizePercent + 99) \div 100

\* ... and, no train_size given, n_train = n - n_test
NTrain(n) == n - NTest(n)

Raised(exc) == [outcome |-> "raised", exc |-> exc]

\* The statements of load_and_preprocess_data in order, each returning or
\* raising: drop("target") needs the column, StandardScaler.fit_transform
\* needs numeric data and at least one row, train_test_split refuses an
\* empty train set.
LoadAndPreprocessData(c) ==
    IF ~c.target THEN Raised("KeyError")
    ELSE IF ~c.numeric \/ c.rows = 0 THEN Raised("ValueError")
    ELSE IF NTrain(c.rows) = 0 THEN Raised("ValueError")
    ELSE [outcome |-> "returned",
          X_train |-> NTrain(c.rows), X_test |-> NTest(c.rows),
          y_train |-> NTrain(c.rows), y_test |-> NTest(c.rows),
          scaler |-> "StandardScaler"]

\* A call of load_and_preprocess_data on the dataset.
Preprocess ==
    /\ split = NotCalled
    /\ split' = LoadAndPreprocessData(csv)
    /\ UNCHANGED <<welcome, csv, artifacts, metrics, req>>

InitPreprocess ==
    /\ ServiceInit
    /\ disk = [preprocessor |-> "missing", model |-> "missing"]
    /\ csv \in Csvs
    /\ split = NotCalled

NextPreprocess == Preprocess

SpecPreprocess == InitPreprocess /\ [][NextPreprocess]_vars

\* =============================================================== claims
Called(r) == req[r].valid
Exited(r) == req[r].pc = "done" /\ req[r].valid
IsSuccess(b) == DOMAIN b = {"prediction", "prediction_label", "confidence"}
IsError(b) == DOMAIN b = {"error"}
Succeeded(r) == Exited(r) /\ req[r].status = 200 /\ IsSuccess(req[r].body)
Quiescent == \A r \in Requests : req[r].pc \in {"idle", "done"}

\* C1: whichever way a call of the handler exits, it has incremented the
\* in-flight gauge exactly once and decremented it exactly once, never
\* decrementing first, and with no call in flight the gauge is back at the
\* value it had before the requests.
C1_GaugeRestoredOnEveryExit ==
    /\ \A r \in Requests : Exited(r) => req[r].incs = 1 /\ req[r].decs = 1
    /\ \A r \in Requests : req[r].decs <= req[r].incs /\ req[r].incs <= 1
    /\ Quiescent => active_requests = 0

\* A call left by an exception nothing in the handler catches, gauge restored.
C1_Witness ==
    \E r \in Requests :
        /\ Exited(r) /\ req[r].status = 500 /\ req[r].exc # "none"
        /\ req[r].incs = 1 /\ req[r].decs = 1
        /\ active_requests = 0

\* C2: every call of the handler with a valid body ends in exactly one of the
\* success payload and the error payload.
C2_ExactlyOneShape ==
    \A r \in Requests :
        Exited(r) =>
            /\ IsSuccess(req[r].body) \/ IsError(req[r].body)
            /\ ~(IsSuccess(req[r].body) /\ IsError(req[r].body))

\* C3: no error of a stage of the handler leaves the handler; none reaches the
\* framework's unhandled-exception path.
C3_NoErrorLeavesHandler ==
    \A r \in Requests : req[r].exc = "none" /\ req[r].status # 500

\* Loading fails at startup: one of the files the try block opens cannot be loaded.
LoadFails ==
    \/ disk.preprocessor \notin Objects
    \/ disk.model \notin Objects

\* C4: once the loading code has run with a load failing (file missing or
\* corrupt), the gauge is 0, both names are None and the service is starting.
C4_LoadFailureNotFatal ==
    (boot # "init" /\ LoadFails) =>
        /\ boot = "serving"
        /\ model_load_status = 0
        /\ preprocessor = "None" /\ model = "None"

StartedNotReady == boot = "serving" /\ LoadFails

\* C5: when the artifacts failed to load, every call of the handler answers
\* the not-loaded error, counts one model_not_loaded error and nothing else,
\* never calls the preprocessor or the model, and the readiness gauge is 0.
C5_NotReadyAnswersNotLoaded ==
    StartedNotReady =>
        /\ model_load_status = 0
        /\ \A r \in Requests :
             /\ req[r].transforms = 0 /\ req[r].predicts = 0 /\ req[r].probas = 0
             /\ req[r].checks = 1 =>
                    /\ req[r].errs = <<"model_not_loaded">>
                    /\ IsError(req[r].ret)
                    /\ req[r].ret.error =
                         "Model or preprocessor not loaded. Please check the server logs."
             /\ Exited(r) =>
                    /\ req[r].status = 200
                    /\ IsError(req[r].body)
                    /\ req[r].body = req[r].ret
        /\ prediction_errors["model_not_loaded"] =
               Cardinality({r \in Requests : req[r].checks = 1})
        /\ prediction_errors["preprocessing_error"] = 0
        /\ prediction_errors["prediction_error"] = 0
        /\ \A l \in PredValues : prediction_counter[l] = 0

C5_Witness ==
    /\ StartedNotReady
    /\ \A r \in Requests : Exited(r)
    /\ prediction_errors["model_not_loaded"] = MaxRequests

\* C6: the stages run in the order readiness check, preprocessing, inference,
\* response; a handled failure of a stage records the error type of that
\* stage only, ends in the error response, and no later stage is executed.
C6_StagesInOrder ==
    \A r \in Requests :
        /\ req[r].checks <= 1 /\ req[r].transforms <= req[r].checks
        /\ req[r].predicts <= req[r].transforms
        /\ req[r].probas <= req[r].predicts
        /\ Len(req[r].counted) <= req[r].probas
        /\ Len(req[r].observed) <= Len(req[r].counted)
        /\ req[r].transforms = 1 => req[r].failed # "readiness"
        /\ req[r].predicts = 1 =>
               req[r].failed # "preprocessing" /\ req[r].processed_input # 0
        /\ req[r].counted # <<>> => req[r].failed = "none"
        /\ req[r].failed = "none" => req[r].errs = <<>>
        /\ req[r].failed = "readiness" =>
               /\ req[r].errs = <<"model_not_loaded">>
               /\ req[r].transforms = 0
        /\ req[r].failed = "preprocessing" =>
               /\ req[r].errs = <<"preprocessing_error">>
               /\ req[r].predicts = 0
        /\ req[r].failed = "prediction" =>
               /\ req[r].errs = <<"prediction_error">>
               /\ req[r].counted = <<>>
        /\ req[r].failed # "none" =>
               /\ req[r].pc \in {"l140", "done"}
               /\ IsError(req[r].ret)
               /\ req[r].counted = <<>> /\ req[r].observed = <<>>

\* A preprocessing failure: counted as such, the model never called.
C6_Witness ==
    \E r \in Requests :
        /\ Exited(r) /\ req[r].failed = "preprocessing"
        /\ req[r].errs = <<"preprocessing_error">>
        /\ req[r].transforms = 1 /\ req[r].predicts = 0
        /\ IsError(req[r].body)

\* C7: a body that violates the schema is answered 422 without the handler
\* being called, and the step that rejects it changes no pipeline metric.
C7_RejectStep ==
    \A r \in Requests :
        (req[r].pc = "idle" /\ req'[r].input \in {"missing", "str"}) =>
            /\ req'[r].status = 422 /\ req'[r].pc = "done" /\ ~req'[r].valid
            /\ UNCHANGED metrics

C7_Rejected ==
    \A r \in Requests :
        req[r].status = 422 =>
            /\ req[r].pc = "done" /\ req[r].incs = 0 /\ req[r].decs = 0
            /\ req[r].checks = 0 /\ req[r].errs = <<>>
            /\ req[r].counted = <<>> /\ req[r].observed = <<>>

C7_SchemaViolationChangesNoMetric == [][C7_RejectStep]_vars /\ []C7_Rejected

C7_Witness ==
    \E r, q \in Requests :
        /\ req[r].status = 422 /\ req[r].input = "missing"
        /\ req[q].status = 422 /\ req[q].input = "str"

\* C8: in a success response the label is 1 exactly when the text is
\* "Heart Disease", and the text is "No Heart Disease" otherwise.
C8_LabelMatchesText ==
    \A r \in Requests :
        IsSuccess(req[r].ret) =>
            /\ req[r].ret.prediction_label = 1 <=> req[r].ret.prediction = "Heart Disease"
            /\ req[r].ret.prediction_label # 1 =>
                   req[r].ret.prediction = "No Heart Disease"

C8_Witness ==
    \E r, q \in Requests :
        /\ Succeeded(r) /\ req[r].body.prediction_label = 1
        /\ Succeeded(q) /\ req[q].body.prediction_label = 2

TwoClass(r) == Len(req[r].prediction_proba) = 1 /\ Len(req[r].prediction_proba[1]) = 2

\* The label is the index of a largest entry of the row.
IsArgmax(row, label) ==
    /\ label >= 0 /\ label < Len(row)
    /\ \A j \in 1..Len(row) : row[j] <= row[label + 1]

\* C9 as stated: with a 2-class model every success response carries a label
\* in {0,1} and a confidence of at least 0.5 and at most 1.
C9_ConfidenceAtLeastHalf ==
    \A r \in Requests :
        (IsSuccess(req[r].ret) /\ TwoClass(r)) =>
            /\ req[r].ret.prediction_label \in {0, 1}
            /\ req[r].ret.confidence >= 50 /\ req[r].ret.confidence <= 100

\* C9 amended: with a 2-class model every success response carries a
\* confidence in [0,1]; the label is in {0,1} and the confidence at least 0.5
\* whenever the label predict returned is the index of a largest entry of the
\* row predict_proba returned.
C9_ConfidenceOfWinnerAtLeastHalf ==
    \A r \in Requests :
        (IsSuccess(req[r].ret) /\ TwoClass(r)) =>
            /\ req[r].ret.confidence >= 0 /\ req[r].ret.confidence <= 100
            /\ IsArgmax(req[r].prediction_proba[1], req[r].prediction[1]) =>
                   /\ req[r].ret.prediction_label \in {0, 1}
                   /\ req[r].ret.confidence >= 50

C9_Witness ==
    \E r \in Requests :
        /\ Succeeded(r) /\ TwoClass(r)
        /\ req[r].prediction = <<0>> /\ req[r].prediction_proba = << <<60, 40>> >>
        /\ req[r].body.confidence = 60

\* C10: the confidence of a success response is the entry of the probability
\* row in the column of the predicted class (the columns being numbered
\* 0..n-1), the row and the class being the results of predict_proba and
\* predict on the same processed input.
C10_ConfidenceOfPredictedClass ==
    \A r \in Requests :
        IsSuccess(req[r].ret) =>
            /\ req[r].processed_input # 0
            /\ req[r].predict_arg = req[r].processed_input
            /\ req[r].proba_arg = req[r].processed_input
            /\ req[r].ret.prediction_label = req[r].prediction[1]
            /\ req[r].prediction[1] \in 0..(Len(req[r].prediction_proba[1]) - 1)
            /\ req[r].ret.confidence =
                   req[r].prediction_proba[1][req[r].prediction[1] + 1]

\* What the handler reports for the same two model results.
HandlerPair(r) == <<req[r].ret.prediction_label, req[r].ret.confidence>>

\* C11 as stated: for a binary classifier inference.predict and the handler
\* give the same label and the same confidence on every input.
C11_MaxEqualsIndexed ==
    \A r \in Requests :
        (IsSuccess(req[r].ret) /\ TwoClass(r)) =>
            InferencePredict(req[r].prediction, req[r].prediction_proba) = HandlerPair(r)

\* The 1-based position Python's index i selects in a row, counted from the
\* front for i >= 0 and from the end for i < 0.
Column(row, i) == IF i >= 0 THEN i + 1 ELSE Len(row) + i + 1

\* The label indexes the row and the entry it selects is a largest one.
SelectsLargest(row, label) ==
    /\ -Len(row) <= label /\ label < Len(row)
    /\ \A j \in 1..Len(row) : row[j] <= row[Column(row, label)]

\* Both model calls returned for a binary classifier and the handler has
\* reached a return statement.
BinaryAnswered(r) ==
    /\ Len(req[r].prediction) = 1
    /\ TwoClass(r)
    /\ req[r].ret # NoBody

\* C11 amended: for a binary classifier inference.predict returns the label
\* of model.predict and the largest entry of the row.  When the label
\* indexes the row (from the front or, negative, from the end) the handler
\* succeeds with the same label and the entry the label selects, which is
\* never more than the max and equals it exactly when the selected entry is
\* a largest one.  When the label does not index the row the handler returns
\* the prediction error and counts it, where inference.predict still returns
\* a label and a confidence.
C11_MaxEqualsIndexedForWinner ==
    \A r \in Requests :
        BinaryAnswered(r) =>
            LET row == req[r].prediction_proba[1]
                label == req[r].prediction[1]
                pair == InferencePredict(req[r].prediction, req[r].prediction_proba)
            IN  /\ pair[1] = label
                /\ \A j \in 1..Len(row) : row[j] <= pair[2]
                /\ \E j \in 1..Len(row) : row[j] = pair[2]
                /\ (-Len(row) <= label /\ label < Len(row)) =>
                       /\ IsSuccess(req[r].ret)
                       /\ req[r].ret.prediction_label = pair[1]
                       /\ req[r].ret.confidence = row[Column(row, label)]
                       /\ req[r].ret.confidence <= pair[2]
                       /\ req[r].ret.confidence = pair[2] <=> SelectsLargest(row, label)
                /\ ~(-Len(row) <= label /\ label < Len(row)) =>
                       /\ IsError(req[r].ret)
                       /\ req[r].ret.error = "Error during prediction"
                       /\ req[r].errs = <<"prediction_error">>

\* One call whose label selects the larger entry, so both computations give
\* 0.6, and one whose label is past the row, where only inference.predict
\* has a result.
C11_Witness ==
    \E r, q \in Requests :
        /\ Succeeded(r) /\ TwoClass(r)
        /\ req[r].prediction = <<1>> /\ req[r].prediction_proba = << <<40, 60>> >>
        /\ InferencePredict(req[r].prediction, req[r].prediction_proba) = <<1, 60>>
        /\ req[r].body.confidence = 60
        /\ Exited(q) /\ TwoClass(q)
        /\ req[q].prediction = <<2>> /\ req[q].prediction_proba = << <<40, 60>> >>
        /\ InferencePredict(req[q].prediction, req[q].prediction_proba) = <<2, 60>>
        /\ IsError(req[q].body)

\* The calls between their increment and their decrement.
InFlight == {r \in Requests : req[r].incs = 1 /\ req[r].decs = 0}

\* C12: under every interleaving of the handler calls the in-flight gauge is
\* the number of calls between their increment and their decrement (so never
\* negative, no update lost), and it is at its initial value once every call
\* of the burst has finished.
C12_GaugeCountsInFlight ==
    /\ active_requests = Cardinality(InFlight)
    /\ active_requests >= 0
    /\ (\A r \in Requests : req[r].pc = "done") => active_requests = 0

\* Every call of the burst in flight at once, at different places.
C12_Witness ==
    /\ active_requests = MaxRequests
    /\ InFlight = Requests
    /\ \E r, q \in Requests : req[r].pc = "l140" /\ req[q].pc = "l99"

\* C13: the payload of a call is decided by the request and the artifacts
\* alone, whatever the recording operations do: the not-loaded error when the
\* readiness check finds an artifact absent, and the success payload of the
\* predicted label and its probability when both model calls returned and the
\* label indexes the row.
C13_RecordingNeverAltersResponse ==
    \A r \in Requests :
        Exited(r) =>
            /\ NotLoaded(model, preprocessor) = "True" =>
                   /\ IsError(req[r].body)
                   /\ req[r].body.error = NotLoadedMessage
            /\ (/\ Len(req[r].prediction) = 1 /\ Len(req[r].prediction_proba) = 1
                /\ IndexInRange(req[r].prediction_proba[1], req[r].prediction[1])) =>
                   /\ IsSuccess(req[r].body)
                   /\ req[r].body.prediction_label = req[r].prediction[1]
                   /\ req[r].body.confidence =
                          ProbaAt(req[r].prediction_proba[1], req[r].prediction[1])

StageMessage(stage) ==
    CASE stage = "readiness" -> NotLoadedMessage
      [] stage = "preprocessing" -> "Error during data preprocessing"
      [] OTHER -> "Error during prediction"

\* C14: within one call the transform, the class prediction and the
\* class-probability call are each made at most once, and the first failure
\* ends the call: nothing is called after it and its message is the response.
C14_NoRetries ==
    \A r \in Requests :
        /\ req[r].transforms <= 1 /\ req[r].predicts <= 1 /\ req[r].probas <= 1
        /\ Len(req[r].errs) <= 1
        /\ req[r].failed # "none" =>
               /\ req[r].pc \in {"l140", "done"}
               /\ req[r].ret = ErrorResponse(StageMessage(req[r].failed))
               /\ req[r].failed = "preprocessing" =>
                      req[r].predicts = 0 /\ req[r].probas = 0
               /\ (req[r].failed = "prediction" /\ req[r].prediction = <<>>) =>
                      req[r].probas = 0
        /\ (Exited(r) /\ req[r].failed # "none") =>
               req[r].status = 200 /\ req[r].body = req[r].ret

\* model.predict returned and model.predict_proba then failed: the call ended
\* with the error of that first failure, each model operation called once.
C14_Witness ==
    \E r \in Requests :
        /\ Exited(r) /\ req[r].failed = "prediction"
        /\ req[r].transforms = 1 /\ req[r].predicts = 1 /\ req[r].probas = 1
        /\ req[r].prediction_proba = <<>>
        /\ IsError(req[r].body)

\* C15: once the service is serving, no step changes the preprocessor, the
\* model or the readiness gauge, and the gauge has been set exactly once.
C15_ServingStep ==
    boot = "serving" =>
        UNCHANGED <<boot, preprocessor, model, model_load_status, load_status_sets>>

C15_ArtifactsNeverChange ==
    [][C15_ServingStep]_vars /\ [](boot = "serving" => load_status_sets = 1)

\* A process that started not-ready, after a burst of /predict calls and a
\* GET /: still not ready.
C15_Witness ==
    /\ boot = "serving" /\ disk.model = "missing"
    /\ \A r \in Requests : Exited(r)
    /\ root_served = MaxRootCalls
    /\ preprocessor = "None" /\ model = "None"
    /\ model_load_status = 0 /\ load_status_sets = 1

\* C16: GET / can be answered in every state of a serving process, ready or
\* not; it answers the welcome payload and the step changes none of the
\* pipeline metrics or the readiness gauge.
C16_RootStep ==
    root_served' # root_served =>
        /\ root_body' =
             [message |-> "Welcome to the Heart Disease Prediction API. Use the /predict endpoint to make predictions."]
        /\ UNCHANGED <<active_requests, prediction_counter, prediction_confidence,
                       prediction_errors, model_load_status>>

C16_RootAvailable ==
    (boot = "serving" /\ root_served < MaxRootCalls) => ENABLED Root

C16_RootIsStaticAndPure == [][C16_RootStep]_vars /\ []C16_RootAvailable

\* GET / answered by a process that is not ready, while a /predict call is
\* in flight.
C16_Witness ==
    /\ root_served > 0 /\ DOMAIN root_body = {"message"}
    /\ model_load_status = 0 /\ model = "None"
    /\ active_requests > 0

NonEmptySplit ==
    /\ split.outcome = "returned"
    /\ split.X_train >= 1 /\ split.X_test >= 1 /\ split.y_train >= 1
    /\ split.scaler # "None"

\* C17 as stated: called on a dataset with a "target" column (and, as in the
\* heart dataset, numeric features), load_and_preprocess_data returns
\* non-empty X_train, X_test and y_train and a scaler that is not None.
C17_SplitsNonEmpty ==
    (csv.target /\ csv.numeric /\ split # NotCalled) => NonEmptySplit

\* C17 amended: called on a numeric dataset with a "target" column and at least
\* two rows it returns non-empty X_train, X_test and y_train (the rows of
\* the dataset, shared between train and test) and a scaler that is not None;
\* on a dataset with fewer than two rows it raises and returns nothing.
C17_SplitsNonEmptyFromTwoRows ==
    (csv.target /\ csv.numeric /\ split # NotCalled) =>
        /\ csv.rows >= 2 =>
               /\ NonEmptySplit
               /\ split.X_train + split.X_test = csv.rows
               /\ split.y_train = split.X_train
        /\ csv.rows < 2 => split.outcome = "raised"

\* The smallest dataset that splits: one row each.
C17_Witness ==
    /\ csv = [rows |-> 2, target |-> TRUE, numeric |-> TRUE]
    /\ split.outcome = "returned"
    /\ split.X_train = 1 /\ split.X_test = 1

RECURSIVE SumCounter(_, _)
SumCounter(f, S) ==
    IF S = {} THEN 0
    ELSE LET x == CHOOSE y \in S : TRUE IN f[x] + SumCounter(f, S \ {x})

TotalPredictions == SumCounter(prediction_counter, PredValues)
TotalErrors == SumCounter(prediction_errors, ErrorTypes)
Returned == {r \in Requests : Exited(r) /\ req[r].status = 200}

\* C18: a call that passed validation and returned a response has changed
\* exactly one outcome counter by one: the prediction counter of its label,
\* with one confidence observation, when it succeeded, or one error_type
\* counter when it failed.  Every counter is the number of calls that counted
\* under it, so with no call in flight the prediction and error counts add up
\* to the number of calls that returned, and the histogram holds one
\* observation per prediction counted.
C18_OneOutcomeCounterPerCall ==
    /\ \A r \in Returned :
         /\ Len(req[r].counted) + Len(req[r].errs) = 1
         /\ Len(req[r].observed) = Len(req[r].counted)
         /\ IsSuccess(req[r].body) <=> Len(req[r].counted) = 1
         /\ IsError(req[r].body) <=> Len(req[r].errs) = 1
         /\ IsSuccess(req[r].body) =>
                /\ req[r].counted = <<req[r].body.prediction_label>>
                /\ req[r].observed = <<req[r].body.confidence>>
    /\ \A l \in PredValues :
         prediction_counter[l] = Cardinality({r \in Requests : req[r].counted = <<l>>})
    /\ \A e \in ErrorTypes :
         prediction_errors[e] = Cardinality({r \in Requests : req[r].errs = <<e>>})
    /\ Quiescent =>
         /\ TotalPredictions + TotalErrors = Cardinality(Returned)
         /\ prediction_confidence.count = TotalPredictions

\* A burst over: one call succeeded, another failed in preprocessing.
C18_Witness ==
    /\ Quiescent
    /\ \E r, q \in Returned :
         /\ IsSuccess(req[r].body)
         /\ req[q].errs = <<"preprocessing_error">>
    /\ TotalPredictions = 1 /\ TotalErrors >= 1
    /\ prediction_confidence.count = 1

BothSet == preprocessor # "None" /\ model # "None"

\* C19: after startup the readiness gauge is 1 exactly when both names are
\* set; a model file not found after the preprocessor loaded leaves both
\* names None and the gauge 0; and the readiness check of the handler agrees
\* with the gauge: it finds the artifacts missing exactly when the gauge is
\* 0, and every call that made the check was refused exactly then.
C19_GaugeAgreesWithReadinessCheck ==
    boot = "serving" =>
        /\ model_load_status = 1 <=> BothSet
        /\ (disk.preprocessor \in Objects /\ disk.model = "missing") =>
               /\ preprocessor = "None" /\ model = "None"
               /\ model_load_status = 0
        /\ NotLoaded(model, preprocessor) = "True" <=> model_load_status = 0
        /\ NotLoaded(model, preprocessor) = "False" <=> model_load_status = 1
        /\ \A r \in Requests : req[r].checks = 1 =>
               /\ req[r].exc = "none"
               /\ req[r].failed = "readiness" <=> model_load_status = 0

====
